---- MODULE Spec2Model ----
(***************************************************************************)
(* Software PWM of examples/FakeAnalogWrite/FakeAnalogWrite.ino: the slot  *)
(* table curISRTimerData, the request fakeAnalogWrite (main context) and   *)
(* the tick handler TimerHandler / doingSomething (interrupt context).     *)
(***************************************************************************)
EXTENDS Integers, Sequences, FiniteSets

\* ---------------------------------------------------------------- bounds
\* Scaled stand-ins for the program's sizes (256 duty steps, 16 slots,
\* 5000 ticks per LED toggle); the algorithms do not depend on the values.
MAX_PWM_VALUE == 3

NUMBER_ISR_TIMERS == 2

LED_TOGGLE_TICKS == 2

\* ------------------------------------------------------------- constants
UINT16_MOD == 65536

INT16_LIMIT == 32768

\* (uint16_t) -1 : what a caller passing a negative duty hands to the request
NEG_ONE == 65535

LOW == 0

HIGH == 1

Slots == 0 .. (NUMBER_ISR_TIMERS - 1)

\* pin 0 is the "unset" value of the table; one pin more than there are slots
Pins == 0 .. NUMBER_ISR_TIMERS

\* requested values: both boundary values, an inner value, and a value that
\* is out of range: a negative one as the uint16_t parameter receives it
Values == {0, 1, MAX_PWM_VALUE - 1, NEG_ONE}

VARIABLES
  curISRTimerData,  \* the slot table
  pinLevel,         \* last level digitalWrite gave each pin (LOW at reset)
  pinIsOutput,      \* pins that pinMode(pin, OUTPUT) has configured
  timeRun,          \* TimerHandler's static tick counter
  toggle,           \* TimerHandler's static LED level
  ledWrites,        \* LED_BUILTIN: level of the last digitalWrite, -1 if none
  pending,          \* writes of the running fakeAnalogWrite not yet executed
  before,           \* the slot those writes go to, as it was when the call began
  age,              \* per slot: ticks since a request last set PWM_Value,
                    \* modulo MAX_PWM_VALUE
  atCapacity,       \* whether the last step was a call for a pin held by no
                    \* slot while every slot was in use ("no" if not), and
                    \* whether that call changed a slot, a pin mode or a level
  obs,              \* observation window on the last request of one pin
  tornRead,         \* the last tick acted on a half-written slot (TornNow)
  tickNo,           \* ticks since reset; from 3 * LED_TOGGLE_TICKS it goes
                    \* back to LED_TOGGLE_TICKS
  mapLog            \* build with USING_MAPPING_TABLE true: the calls that
                    \* stored a duty so far, each with the duty it stored

vars == <<curISRTimerData, pinLevel, pinIsOutput, timeRun, toggle, ledWrites,
          pending, before, age, atCapacity, obs, tornRead, tickNo, mapLog>>

\* ------------------------------------------------------------ conversions
ToInt16(x) == IF (x % UINT16_MOD) >= INT16_LIMIT THEN (x % UINT16_MOD) - UINT16_MOD
              ELSE x % UINT16_MOD

\* localValue = (value < MAX_PWM_VALUE) ? value : MAX_PWM_VALUE
ClampValue(value) == IF value < MAX_PWM_VALUE THEN value ELSE MAX_PWM_VALUE

\* USING_MAPPING_TABLE is false: the #else branch, PWM_Value = localValue
MappedValue(localValue) == ToInt16(localValue)

IsBoundary(localValue) == localValue = 0 \/ localValue = MAX_PWM_VALUE - 1

\* ------------------------------------------------------------- slot table
EmptySlot == [PWM_Value |-> 0, PWM_PremapValue |-> 0, pin |-> 0,
              countPWM |-> 0, beingUsed |-> FALSE]

NoSlot == NUMBER_ISR_TIMERS

Min(S) == CHOOSE x \in S : \A y \in S : x <= y

\* first loop: the first slot in use that holds the pin
BoundIndex_FromOne(d, pin) ==
  LET hit == {i \in Slots : i >= 1 /\ d[i].beingUsed /\ d[i].pin = pin}
  IN IF hit = {} THEN NoSlot ELSE Min(hit)

BoundIndex_AnyUsed(d, pin) ==
  LET hit == {i \in Slots : d[i].beingUsed}
  IN IF hit = {} THEN NoSlot ELSE Min(hit)

BoundIndex(d, pin) ==
  LET hit == {i \in Slots : d[i].beingUsed /\ d[i].pin = pin}
  IN IF hit = {} THEN NoSlot ELSE Min(hit)

\* second loop: the first slot not in use
FreeIndex_ReuseLast(d) ==
  LET free == {i \in Slots : ~d[i].beingUsed}
  IN IF free = {} THEN NUMBER_ISR_TIMERS - 1 ELSE Min(free)

FreeIndex(d) ==
  LET free == {i \in Slots : ~d[i].beingUsed}
  IN IF free = {} THEN NoSlot ELSE Min(free)

W(i, f, v) == [idx |-> i, field |-> f, val |-> v]

\* the writes of fakeAnalogWrite(pin, value) on table d, in program order
UpdateWrites(d, i, localValue) ==
  IF d[i].PWM_PremapValue = localValue THEN << >>
  ELSE IF d[i].PWM_Value >= 0
  THEN << W(i, "PWM_PremapValue", localValue),
          W(i, "PWM_Value", IF IsBoundary(localValue) THEN ToInt16(localValue)
                            ELSE MappedValue(localValue)),
          W(i, "countPWM", 0) >>
  ELSE << W(i, "beingUsed", FALSE), W(i, "pin", 0), W(i, "PWM_Value", 0),
          W(i, "countPWM", 0) >>

AddWrites(i, pin, localValue) ==
  << W(i, "beingUsed", TRUE), W(i, "pin", pin) >>
  \o (IF IsBoundary(localValue)
      THEN << W(i, "PWM_Value", ToInt16(localValue)) >>
      ELSE << W(i, "PWM_PremapValue", localValue),
              W(i, "PWM_Value", MappedValue(localValue)) >>)
  \o << W(i, "countPWM", 0), W(i, "pinMode", pin) >>

RequestWrites(d, pin, value) ==
  LET i == BoundIndex(d, pin)
      j == FreeIndex(d)
      localValue == ClampValue(value)
  IN IF i # NoSlot THEN UpdateWrites(d, i, localValue)
     ELSE IF j # NoSlot THEN AddWrites(j, pin, localValue)
     ELSE << >>

\* which return of fakeAnalogWrite the call takes
RequestOutcome(d, pin, value) ==
  LET i == BoundIndex(d, pin)
  IN IF i # NoSlot
     THEN IF d[i].PWM_PremapValue = ClampValue(value) THEN "ignore"
          ELSE IF d[i].PWM_Value >= 0 THEN "update" ELSE "free"
     ELSE IF FreeIndex(d) # NoSlot THEN "add" ELSE "drop"

\* one write applied to the table
ApplyData(d, w) ==
  IF w.field = "pinMode" THEN d
  ELSE [d EXCEPT ![w.idx] = [@ EXCEPT ![w.field] = w.val]]

ApplyMode(m, w) ==
  IF w.field = "pinMode" THEN [m EXCEPT ![w.val] = TRUE] ELSE m

RECURSIVE ApplyAllData(_, _)
ApplyAllData(d, ws) ==
  IF ws = << >> THEN d ELSE ApplyAllData(ApplyData(d, Head(ws)), Tail(ws))

RECURSIVE ApplyAllMode(_, _)
ApplyAllMode(m, ws) ==
  IF ws = << >> THEN m ELSE ApplyAllMode(ApplyMode(m, Head(ws)), Tail(ws))

\* the slot whose PWM_Value the writes set, NoSlot if none
RetargetedSlot(ws) ==
  LET hit == {k \in 1 .. Len(ws) : ws[k].field = "PWM_Value"}
  IN IF hit = {} THEN NoSlot ELSE ws[Min(hit)].idx

\* ------------------------------------------------------------ tick handler
NextCount_NoWrap(c) == c + 1

NextCount(c) == ToInt16((c + 1) % MAX_PWM_VALUE)

FallingEdge_OneEarly(s) == s.countPWM = s.PWM_Value - 1

FallingEdge_OneLate(s) == s.countPWM = s.PWM_Value + 1

FallingEdge(s) == s.countPWM = s.PWM_Value

Driven_AnyPin(s) == s.beingUsed /\ s.PWM_Value > 0

Driven(s) == s.beingUsed /\ s.PWM_Value > 0 /\ s.pin # 0

\* level doingSomething writes for slot s: LOW, HIGH, or -1 for no write
WrittenLevel(s) ==
  IF Driven(s)
  THEN IF s.countPWM = 0 THEN (IF s.PWM_Value > 0 THEN HIGH ELSE LOW)
       ELSE IF FallingEdge(s) THEN LOW ELSE -1
  ELSE -1

\* doingSomething(index) on <<table, levels>>
doingSomething(st, index) ==
  LET s == st.data[index]
      l == WrittenLevel(s)
  IN [data  |-> [st.data EXCEPT ![index].countPWM = NextCount(s.countPWM)],
      level |-> IF l = -1 THEN st.level ELSE [st.level EXCEPT ![s.pin] = l]]

RECURSIVE AllSlots(_, _)
AllSlots(st, i) ==
  IF i = NUMBER_ISR_TIMERS THEN st ELSE AllSlots(doingSomething(st, i), i + 1)

NextAge(a) == (a + 1) % MAX_PWM_VALUE

\* ++timeRun == (LED_TOGGLE_INTERVAL_MS * TIMER2_FREQUENCY_HZ) / 1000
HeartbeatDue_OneEarly(t) == t = LED_TOGGLE_TICKS - 1

HeartbeatDue(t) == t = LED_TOGGLE_TICKS

NextTickNo(n) == IF n + 1 = 3 * LED_TOGGLE_TICKS THEN LED_TOGGLE_TICKS ELSE n + 1

\* the window: the pin and value of a request, the return it took, the ticks
\* since it returned (at most MAX_PWM_VALUE are counted) and the number of
\* those ticks after which the pin was HIGH
NoObs == [pin |-> -1, value |-> 0, outcome |-> "none", ticks |-> 0, high |-> 0]

\* some slot in use holds the pin
PinHeld(d, pin) == \E i \in Slots : d[i].beingUsed /\ d[i].pin = pin

TableFull(d) == \A i \in Slots : d[i].beingUsed

\* ------------------------------------------------------------------- Init
\* the table's initializer, then setup()
Init ==
  /\ curISRTimerData = [i \in Slots |-> EmptySlot]
  /\ pinLevel = [p \in Pins |-> LOW]
  /\ pinIsOutput = [p \in Pins |-> FALSE]
  /\ timeRun = 0
  /\ toggle = FALSE
  /\ ledWrites = -1
  /\ pending = << >>
  /\ before = EmptySlot
  /\ age = [i \in Slots |-> 0]
  /\ atCapacity = "no"
  /\ obs = NoObs
  /\ tornRead = FALSE
  /\ tickNo = 0
  /\ mapLog = << >>

\* ---------------------------------------------------------------- request
\* the table as fakeAnalogWrite(pin, value) leaves it when called on table d
TableAfterCall(d, pin, value) == ApplyAllData(d, RequestWrites(d, pin, value))

\* fakeAnalogWrite(pin, value) run to its return with no tick in between
Request(pin, value) ==
  LET ws == RequestWrites(curISRTimerData, pin, value)
      r  == RetargetedSlot(ws)
  IN /\ pending = << >>
     /\ curISRTimerData' = ApplyAllData(curISRTimerData, ws)
     /\ pinIsOutput' = ApplyAllMode(pinIsOutput, ws)
     /\ age' = IF r = NoSlot THEN age ELSE [age EXCEPT ![r] = 0]
     /\ UNCHANGED <<pinLevel, timeRun, toggle, ledWrites, pending, before,
                    tornRead, tickNo, mapLog>>

fakeAnalogWrite(pin, value) == Request(pin, value) /\ UNCHANGED <<atCapacity, obs>>

\* ------------------------------------------------------------------- tick
\* A tick that runs between two writes of a request reads the slot half
\* written. It is torn when what doingSomething then writes to the pin is
\* neither what it writes if the tick comes before the whole call nor what
\* it writes if it comes after it.
TornNow ==
  /\ pending # << >>
  /\ LET i    == pending[1].idx
         cur  == curISRTimerData[i]
         pre  == [before EXCEPT !.countPWM = cur.countPWM]
         post == ApplyAllData(curISRTimerData, pending)[i]
     IN WrittenLevel(cur) \notin {WrittenLevel(pre), WrittenLevel(post)}

Tick ==
  LET st == AllSlots([data |-> curISRTimerData, level |-> pinLevel], 0)
      t  == timeRun + 1   \* ++timeRun; reset before it can wrap
  IN /\ curISRTimerData' = st.data
     /\ pinLevel' = st.level
     /\ IF HeartbeatDue(t)
        THEN timeRun' = 0 /\ ledWrites' = (IF toggle THEN HIGH ELSE LOW)
             /\ toggle' = ~toggle
        ELSE timeRun' = t /\ UNCHANGED <<ledWrites, toggle>>
     /\ age' = [i \in Slots |-> NextAge(age[i])]
     /\ tornRead' = TornNow
     /\ tickNo' = NextTickNo(tickNo)
     /\ UNCHANGED <<pinIsOutput, pending, before, mapLog>>

TimerHandler == Tick /\ UNCHANGED <<atCapacity, obs>>

\* The pins a caller passes. The code distinguishes pin 0 and otherwise only
\* compares pins for equality, so of the pins bound to no slot the caller
\* takes 0 or the least one: every other run is a renaming of such a run.
CallerPins ==
  LET d == curISRTimerData
      unbound == {p \in Pins : p # 0 /\ ~PinHeld(d, p)}
  IN {p \in Pins : PinHeld(d, p)} \cup {0}
     \cup (IF unbound = {} THEN {} ELSE {Min(unbound)})

Next ==
  \/ \E pin \in CallerPins, value \in Values : fakeAnalogWrite(pin, value)
  \/ TimerHandler

Spec == Init /\ [][Next]_vars

\* The timer interrupt keeps firing: a tick is never put off for ever. A step
\* advances tickNo exactly when it is a run of TimerHandler, which is always
\* enabled, so the fairness of the tick is stated on that advance.
TickAdvance == tickNo' = NextTickNo(tickNo)

SpecLive == Init /\ [][Next]_vars /\ WF_tickNo(TickAdvance)

\* ------------------------- the same, with calls on a full table recorded
fakeAnalogWriteLogged(pin, value) ==
  /\ Request(pin, value)
  /\ atCapacity' =
       IF TableFull(curISRTimerData) /\ ~PinHeld(curISRTimerData, pin)
       THEN (IF curISRTimerData' = curISRTimerData /\ pinIsOutput' = pinIsOutput
                /\ pinLevel' = pinLevel
             THEN "unchanged" ELSE "changed")
       ELSE "no"
  /\ UNCHANGED obs

TimerHandlerLogged == Tick /\ atCapacity' = "no" /\ UNCHANGED obs

NextLog ==
  \/ \E pin \in CallerPins, value \in Values : fakeAnalogWriteLogged(pin, value)
  \/ TimerHandlerLogged

SpecLog == Init /\ [][NextLog]_vars

\* ------------------------- the same, with one request at a time observed
\* A request for the observed pin restarts the window; a request for another
\* pin may move the window to that pin.
fakeAnalogWriteObserved(pin, value) ==
  /\ Request(pin, value)
  /\ \E watch \in BOOLEAN :
       obs' = IF watch \/ pin = obs.pin
              THEN [pin |-> pin, value |-> value,
                    outcome |-> RequestOutcome(curISRTimerData, pin, value),
                    ticks |-> 0, high |-> 0]
              ELSE obs
  /\ UNCHANGED atCapacity

TimerHandlerObserved ==
  /\ Tick
  /\ obs' = IF obs.pin = -1 \/ obs.ticks = MAX_PWM_VALUE THEN obs
            ELSE [obs EXCEPT !.ticks = @ + 1,
                             !.high = IF pinLevel'[obs.pin] = HIGH THEN @ + 1 ELSE @]
  /\ UNCHANGED atCapacity

NextObs ==
  \/ \E pin \in CallerPins, value \in Values : fakeAnalogWriteObserved(pin, value)
  \/ TimerHandlerObserved

SpecObs == Init /\ [][NextObs]_vars

\* ------------------ fakeAnalogWrite one write at a time, ticks in between
\* Interrupts are never masked in fakeAnalogWrite, so TimerHandler can run
\* between any two of its statements. The loops only read fields that a tick
\* does not write, so the writes of a call are fixed when it starts.
BeginRequest(pin, value) ==
  /\ pending = << >>
  /\ pending' = RequestWrites(curISRTimerData, pin, value)
  /\ before' = IF pending' = << >> THEN EmptySlot
               ELSE curISRTimerData[pending'[1].idx]
  /\ UNCHANGED <<curISRTimerData, pinLevel, pinIsOutput, timeRun, toggle,
                 ledWrites, age, atCapacity, obs, tornRead, tickNo, mapLog>>

ExecuteWrite ==
  /\ pending # << >>
  /\ curISRTimerData' = ApplyData(curISRTimerData, Head(pending))
  /\ pinIsOutput' = ApplyMode(pinIsOutput, Head(pending))
  /\ age' = IF Head(pending).field = "PWM_Value"
            THEN [age EXCEPT ![Head(pending).idx] = 0] ELSE age
  /\ pending' = Tail(pending)
  /\ before' = IF pending' = << >> THEN EmptySlot ELSE before
  /\ tornRead' = FALSE
  /\ UNCHANGED <<pinLevel, timeRun, toggle, ledWrites, atCapacity, obs, tickNo,
                 mapLog>>

NextPreempt ==
  \/ \E pin \in CallerPins, value \in Values : BeginRequest(pin, value)
  \/ ExecuteWrite
  \/ TimerHandler

SpecPreempt == Init /\ [][NextPreempt]_vars

\* ------------- the build with USING_MAPPING_TABLE true, at the shipped size
\* The table holds 26 entries for MAX_PWM_VALUE 256, so this build is modelled
\* at that size. The entries have three decimals and are kept in thousandths;
\* for every localValue in 0 .. 256 the float32 computation of the code and
\* the exact one below give the same integer.
MAX_PWM_VALUE_SHIPPED == 256

MAPPING_TABLE_SIZE == (MAX_PWM_VALUE_SHIPPED \div 10) + 1

MILLI == 1000

mappingTable ==
  << 0,      3281,   6860,   10886,  15285,  20355,  26096,  32732,  40785,
     50180,  62557,  79557,  104461, 136075, 163066, 181930, 195724, 207132,
     216228, 223684, 230395, 236136, 241206, 245680, 249781, 253509 >>

\* mappingTable[j] of the code
TableAt(j) == mappingTable[j + 1]

\* the index search: localIndex starts at 0 and is set to j - 1 at the first
\* entry that exceeds localValue; it keeps 0 when no entry does
LocalIndex(localValue) ==
  LET hit == {j \in 0 .. (MAPPING_TABLE_SIZE - 1) : localValue * MILLI < TableAt(j)}
  IN IF hit = {} THEN 0 ELSE (Min(hit) - 1) % UINT16_MOD

\* (uint16_t) (localIndex * 10 + (localValue - table[localIndex]) * 10
\*                               / (table[localIndex + 1] - table[localIndex]))
Interpolated(localValue) ==
  LET k == LocalIndex(localValue)
  IN ((k * 10) + (((localValue * MILLI - TableAt(k)) * 10)
                   \div (TableAt(k + 1) - TableAt(k)))) % UINT16_MOD

ClampValueShipped(value) ==
  IF value < MAX_PWM_VALUE_SHIPPED THEN value ELSE MAX_PWM_VALUE_SHIPPED

IsBoundaryShipped(localValue) ==
  localValue = 0 \/ localValue = MAX_PWM_VALUE_SHIPPED - 1

\* the duty a call stores for localValue
StoredDutyMapped(localValue) ==
  IF IsBoundaryShipped(localValue) THEN ToInt16(localValue)
  ELSE ToInt16(Interpolated(localValue))

UpdateWritesMapped(d, i, localValue) ==
  IF d[i].PWM_PremapValue = localValue THEN << >>
  ELSE IF d[i].PWM_Value >= 0
  THEN << W(i, "PWM_PremapValue", localValue),
          W(i, "PWM_Value", StoredDutyMapped(localValue)),
          W(i, "countPWM", 0) >>
  ELSE << W(i, "beingUsed", FALSE), W(i, "pin", 0), W(i, "PWM_Value", 0),
          W(i, "countPWM", 0) >>

AddWritesMapped(i, pin, localValue) ==
  << W(i, "beingUsed", TRUE), W(i, "pin", pin) >>
  \o (IF IsBoundaryShipped(localValue)
      THEN << W(i, "PWM_Value", StoredDutyMapped(localValue)) >>
      ELSE << W(i, "PWM_PremapValue", localValue),
              W(i, "PWM_Value", StoredDutyMapped(localValue)) >>)
  \o << W(i, "countPWM", 0), W(i, "pinMode", pin) >>

RequestWritesMapped(d, pin, value) ==
  LET i == BoundIndex(d, pin)
      j == FreeIndex(d)
      localValue == ClampValueShipped(value)
  IN IF i # NoSlot THEN UpdateWritesMapped(d, i, localValue)
     ELSE IF j # NoSlot THEN AddWritesMapped(j, pin, localValue)
     ELSE << >>

\* the slot in which the call stores a calibrated duty, NoSlot if it stores none
CalibratedSlot(d, pin, value) ==
  LET i == BoundIndex(d, pin)
  IN IF i # NoSlot
     THEN IF d[i].PWM_PremapValue # ClampValueShipped(value) /\ d[i].PWM_Value >= 0
          THEN i ELSE NoSlot
     ELSE FreeIndex(d)

\* number of calls a run of this build is followed for
MAX_MAPPED_CALLS == 2

\* clamped inputs: every value in [0, MAX_PWM_VALUE)
RawDuties == 0 .. (MAX_PWM_VALUE_SHIPPED - 1)

fakeAnalogWriteMapped(pin, value) ==
  LET ws == RequestWritesMapped(curISRTimerData, pin, value)
      c  == CalibratedSlot(curISRTimerData, pin, value)
  IN /\ Len(mapLog) < MAX_MAPPED_CALLS
     /\ curISRTimerData' = ApplyAllData(curISRTimerData, ws)
     /\ pinIsOutput' = ApplyAllMode(pinIsOutput, ws)
     /\ mapLog' = IF c = NoSlot THEN mapLog
                  ELSE Append(mapLog, [pin  |-> pin,
                                       raw  |-> ClampValueShipped(value),
                                       duty |-> curISRTimerData'[c].PWM_Value])
     /\ UNCHANGED <<pinLevel, timeRun, toggle, ledWrites, pending, before, age,
                    atCapacity, obs, tornRead, tickNo>>

\* the calls name pins other than 0, as those of loop() do
NextMap ==
  \E pin \in CallerPins \ {0}, value \in RawDuties : fakeAnalogWriteMapped(pin, value)

SpecMap == Init /\ [][NextMap]_vars

\* ================================================================= claims
Abs(x) == IF x < 0 THEN -x ELSE x

\* the clamp the claims speak of: into [0, MAX_PWM_VALUE)
ClaimedClamp(value) == IF value < MAX_PWM_VALUE THEN value ELSE MAX_PWM_VALUE - 1

\* C1: once a request (pin, value) has returned with the pin bound and
\* MAX_PWM_VALUE ticks have passed with no other request for the pin, the
\* pin was HIGH after clamp(value) of those ticks, give or take one.
C1_DutyRatio ==
  (obs.pin > 0 /\ PinHeld(curISRTimerData, obs.pin) /\ obs.ticks = MAX_PWM_VALUE)
    => Abs(obs.high - ClaimedClamp(obs.value)) <= 1

\* C2: for a slot bound to a pin with duty d in 1 .. MAX_PWM_VALUE-1, after
\* every tick the pin is HIGH when the number of ticks since the request
\* that set d is, modulo MAX_PWM_VALUE, in 1 .. d (after ticks 0 .. d-1 of
\* the period), and LOW otherwise (after ticks d .. MAX_PWM_VALUE-1).
C2_Waveform ==
  [][TimerHandler =>
       \A i \in Slots :
         LET s == curISRTimerData'[i]
         IN (s.beingUsed /\ s.pin # 0 /\ 0 < s.PWM_Value
             /\ s.PWM_Value <= MAX_PWM_VALUE - 1)
            => pinLevel'[s.pin] = (IF 1 <= age'[i] /\ age'[i] <= s.PWM_Value
                                   THEN HIGH ELSE LOW)]_vars

\* a slot of duty 1 two ticks after the request: the falling edge has acted
C2_Witness ==
  \E i \in Slots :
    /\ curISRTimerData[i].beingUsed /\ curISRTimerData[i].pin # 0
    /\ curISRTimerData[i].PWM_Value = 1 /\ age[i] = 2
    /\ curISRTimerData[i].countPWM = 2
    /\ pinLevel[curISRTimerData[i].pin] = LOW

\* C3: after a request of value 0 has updated a bound pin and a tick has
\* passed, the pin is LOW (until the next request for the pin).
C3_ZeroIsLow ==
  (obs.pin > 0 /\ obs.value = 0 /\ obs.outcome = "update" /\ obs.ticks >= 1)
    => pinLevel[obs.pin] = LOW

\* C4: a request that repeats the pin and the value of the last request for
\* that pin changes no field of any slot.
C4_Idempotent ==
  [][\A p \in Pins, v \in Values :
       (obs.pin = p /\ obs.value = v /\ fakeAnalogWriteObserved(p, v))
         => UNCHANGED curISRTimerData]_vars

\* C5: when a bound pin was requested with a negative value and a tick has
\* passed, the next request for that pin leaves the pin bound to no slot.
C5_Release ==
  [][\A p \in Pins, v \in Values :
       (/\ p # 0 /\ obs.pin = p /\ obs.value >= INT16_LIMIT
        /\ obs.outcome \in {"ignore", "update", "free"} /\ obs.ticks >= 1
        /\ PinHeld(curISRTimerData, p)
        /\ fakeAnalogWriteObserved(p, v))
         => ~PinHeld(curISRTimerData', p)]_vars

\* C6: with every slot in use, a request for a pin that no slot holds changes
\* no slot, no pin mode and no pin level.
C6_CapacityNoOp == atCapacity # "changed"

\* the table is full and the last call, for a further pin, has returned
C6_Witness == TableFull(curISRTimerData) /\ atCapacity = "unchanged"

\* C7: no tick acts on a slot between the writes of a request in a way that
\* fits neither the tick before the request nor the tick after it.
C7_NoTornRead == tornRead = FALSE

\* C8: no two slots in use hold the same pin.
C8_UniquePin ==
  \A i, j \in Slots :
    (i # j /\ curISRTimerData[i].beingUsed /\ curISRTimerData[j].beingUsed)
      => curISRTimerData[i].pin # curISRTimerData[j].pin

\* every slot is in use and a later request for a bound pin has found its
\* slot: only the update path stores MAX_PWM_VALUE-1 in PWM_PremapValue
C8_Witness ==
  /\ TableFull(curISRTimerData)
  /\ \E i \in Slots : /\ curISRTimerData[i].PWM_Value = MAX_PWM_VALUE - 1
                      /\ curISRTimerData[i].PWM_PremapValue = MAX_PWM_VALUE - 1

\* C9: every slot in use has 0 <= PWM_Value < MAX_PWM_VALUE.
C9_DutyInRange ==
  \A i \in Slots :
    curISRTimerData[i].beingUsed
      => (0 <= curISRTimerData[i].PWM_Value
          /\ curISRTimerData[i].PWM_Value < MAX_PWM_VALUE)

\* C10: every slot, in use or not, has 0 <= countPWM < MAX_PWM_VALUE.
C10_CountInRange ==
  \A i \in Slots :
    0 <= curISRTimerData[i].countPWM /\ curISRTimerData[i].countPWM < MAX_PWM_VALUE

\* a slot no request has reset, back at 0 after ticks: its counter has wrapped
C10_Witness ==
  /\ ledWrites # -1
  /\ \E i \in Slots : ~curISRTimerData[i].beingUsed /\ curISRTimerData[i].countPWM = 0

\* C11: in the build with the mapping table, every duty a call stores for a
\* clamped input in [0, MAX_PWM_VALUE) lies in [0, MAX_PWM_VALUE); so also for
\* an input that no table entry exceeds.
C11_MappedDutyInRange ==
  \A k \in 1 .. Len(mapLog) :
    (0 <= mapLog[k].raw /\ mapLog[k].raw < MAX_PWM_VALUE_SHIPPED)
      => (0 <= mapLog[k].duty /\ mapLog[k].duty < MAX_PWM_VALUE_SHIPPED)

\* C12: in the build with the mapping table, a call with input 0 stores duty
\* 0, a call with input MAX_PWM_VALUE-1 stores MAX_PWM_VALUE-1, and of two
\* calls the one with the larger input does not store the smaller duty.
C12_MappedMonotonic ==
  /\ \A k \in 1 .. Len(mapLog) :
       /\ mapLog[k].raw = 0 => mapLog[k].duty = 0
       /\ mapLog[k].raw = MAX_PWM_VALUE_SHIPPED - 1
            => mapLog[k].duty = MAX_PWM_VALUE_SHIPPED - 1
  /\ \A k, m \in 1 .. Len(mapLog) :
       mapLog[k].raw <= mapLog[m].raw => mapLog[k].duty <= mapLog[m].duty

\* C13: in every reachable state, whatever call fakeAnalogWrite(p, v) comes
\* next, it changes no field of a slot bound to a pin other than p; it changes
\* at most one slot: the one bound to p or, if there is none, a free slot,
\* which it binds to p.
C13_OtherSlotsKept ==
  \A p \in Pins, v \in Values :
    LET after   == TableAfterCall(curISRTimerData, p, v)
        held    == {k \in Slots : curISRTimerData[k].beingUsed
                                  /\ curISRTimerData[k].pin = p}
        free    == {k \in Slots : ~curISRTimerData[k].beingUsed}
        changed == {k \in Slots : after[k] # curISRTimerData[k]}
    IN /\ \A k \in Slots :
            (curISRTimerData[k].beingUsed /\ curISRTimerData[k].pin # p)
              => after[k] = curISRTimerData[k]
       /\ Cardinality(changed) <= 1
       /\ changed \subseteq (IF held # {} THEN held ELSE free)
       /\ held = {} => \A k \in changed : after[k].beingUsed /\ after[k].pin = p

\* two slots hold different pins; a request has just set the duty of one of
\* them and the other still has the count the ticks gave it
C13_Witness ==
  \E i, j \in Slots :
    /\ curISRTimerData[i].beingUsed /\ curISRTimerData[j].beingUsed
    /\ curISRTimerData[i].pin # curISRTimerData[j].pin
    /\ curISRTimerData[i].pin # 0 /\ curISRTimerData[j].pin # 0
    /\ age[j] = 0 /\ curISRTimerData[j].countPWM = 0
    /\ curISRTimerData[j].PWM_PremapValue = MAX_PWM_VALUE - 1
    /\ curISRTimerData[i].countPWM = 1 /\ curISRTimerData[i].PWM_Value = 1

\* C14: a call fakeAnalogWrite(p, v) for a pin p # 0 that no slot holds, made while
\* some slot is not in use, leaves the lowest such slot in use, bound to p,
\* with PWM_Value = clamp(v) (the mapping table is disabled) and countPWM = 0,
\* and p configured as an output.
C14_Allocation ==
  [][\A p \in Pins, v \in Values :
       (/\ p # 0
        /\ ~PinHeld(curISRTimerData, p)
        /\ ~TableFull(curISRTimerData)
        /\ fakeAnalogWrite(p, v))
         => LET k == Min({i \in Slots : ~curISRTimerData[i].beingUsed})
            IN /\ curISRTimerData'[k].beingUsed
               /\ curISRTimerData'[k].pin = p
               /\ curISRTimerData'[k].PWM_Value = ClaimedClamp(v)
               /\ curISRTimerData'[k].countPWM = 0
               /\ pinIsOutput'[p]]_vars

\* C15: the LED is written on every LED_TOGGLE_TICKS-th tick and on no
\* other, LOW first and then alternating, whatever calls are made and
\* whatever the slots hold; the heartbeat's counter and toggle depend on the
\* number of ticks alone, so no call changes them.
C15_Heartbeat ==
  /\ ledWrites = (IF tickNo < LED_TOGGLE_TICKS THEN -1
                  ELSE IF (tickNo \div LED_TOGGLE_TICKS) % 2 = 1 THEN LOW ELSE HIGH)
  /\ timeRun = tickNo % LED_TOGGLE_TICKS
  /\ toggle = ((tickNo \div LED_TOGGLE_TICKS) % 2 = 1)

\* the second write of the LED has just happened, with every slot in use and
\* a request made since the last tick
C15_Witness ==
  /\ tickNo = 2 * LED_TOGGLE_TICKS /\ ledWrites = HIGH
  /\ TableFull(curISRTimerData)
  /\ \E i \in Slots : curISRTimerData[i].pin # 0 /\ age[i] = 0
                      /\ curISRTimerData[i].PWM_Value > 0

\* C16: a tick changes beingUsed, pin, PWM_Value and PWM_PremapValue of no
\* slot and the mode of no pin, and it changes the level of a pin only if a
\* slot in use with PWM_Value > 0 holds that pin and the pin is not 0.
C16_TickFrame ==
  [][TimerHandler =>
       /\ \A i \in Slots :
            /\ curISRTimerData'[i].beingUsed = curISRTimerData[i].beingUsed
            /\ curISRTimerData'[i].pin = curISRTimerData[i].pin
            /\ curISRTimerData'[i].PWM_Value = curISRTimerData[i].PWM_Value
            /\ curISRTimerData'[i].PWM_PremapValue = curISRTimerData[i].PWM_PremapValue
       /\ pinIsOutput' = pinIsOutput
       /\ \A q \in Pins :
            pinLevel'[q] # pinLevel[q]
              => /\ q # 0
                 /\ \E i \in Slots : /\ curISRTimerData[i].beingUsed
                                     /\ curISRTimerData[i].pin = q
                                     /\ curISRTimerData[i].PWM_Value > 0]_vars

\* a tick has passed over a slot in use with a duty that holds pin 0, and over
\* one with a duty that holds another pin: only the latter pin went HIGH
C16_Witness ==
  \E i, j \in Slots :
    /\ curISRTimerData[i].beingUsed /\ curISRTimerData[i].pin = 0
    /\ curISRTimerData[i].PWM_Value > 0 /\ curISRTimerData[i].countPWM = 1
    /\ curISRTimerData[j].beingUsed /\ curISRTimerData[j].pin # 0
    /\ curISRTimerData[j].PWM_Value > 0 /\ curISRTimerData[j].countPWM = 1
    /\ pinLevel[curISRTimerData[j].pin] = HIGH /\ pinLevel[0] = LOW

\* C17: with ticks running between the statements of fakeAnalogWrite, no pin
\* is driven before pinMode(pin, OUTPUT) has run for it: a pin that a tick
\* has set HIGH is configured as an output.
C17_ModeBeforeLevel ==
  \A q \in Pins : pinLevel[q] = HIGH => pinIsOutput[q]

\* C18: with requests atomic, every slot in use has PWM_Value =
\* PWM_PremapValue (the mapping table is disabled): the value compared to
\* suppress a repeated request is the raw value behind the slot's duty.
C18_PremapMatchesDuty ==
  \A i \in Slots :
    (curISRTimerData[i].beingUsed /\ curISRTimerData[i].pin # 0)
      => curISRTimerData[i].PWM_Value = curISRTimerData[i].PWM_PremapValue

\* C19: every slot in use holds a pin other than 0.
C19_NoSlotOnPinZero ==
  \A i \in Slots : curISRTimerData[i].beingUsed => curISRTimerData[i].pin # 0

\* C20: with ticks never put off for ever, if from some point on slot i stays
\* bound to a pin other than 0 with the same duty d, 0 < d < MAX_PWM_VALUE
\* (as it does once no call for the pin is made any more: only such a call
\* changes the slot's duty), then the pin is HIGH again and again and LOW
\* again and again.
C20_NeverStuck ==
  \A i \in Slots, d \in 1 .. (MAX_PWM_VALUE - 1) :
    <>[](/\ curISRTimerData[i].beingUsed
         /\ curISRTimerData[i].pin # 0
         /\ curISRTimerData[i].PWM_Value = d)
      => (/\ []<>(pinLevel[curISRTimerData[i].pin] = HIGH)
          /\ []<>(pinLevel[curISRTimerData[i].pin] = LOW))

\* more than a period of ticks after reset, a slot of duty 1 holding a pin
\* other than 0 is one tick into a period and its pin is HIGH
C20_Witness ==
  \E i \in Slots :
    /\ curISRTimerData[i].beingUsed /\ curISRTimerData[i].pin # 0
    /\ curISRTimerData[i].PWM_Value = 1
    /\ curISRTimerData[i].countPWM = 1 /\ age[i] = 1
    /\ tickNo = MAX_PWM_VALUE + 1
    /\ pinLevel[curISRTimerData[i].pin] = HIGH

====
